---- MODULE Spec2Model ----
(***************************************************************************)
(* A model of the probe-calibration scripts of printer_scripts.            *)
(*                                                                         *)
(*   Spec      PrinterController.run of calibrate-probe.py: the sequence   *)
(*             of commands it sends, the two descent loops, the heat wait  *)
(*             and the exception path.  At this level one send_command     *)
(*             call is one write with one of the responses the device can  *)
(*             give (acknowledged, not acknowledged, or a serial error).   *)
(*   SpecChannel  PrinterController.send_command, line by line, against a  *)
(*             device that answers each command with lines that arrive at  *)
(*             any later time.                                             *)
(*                                                                         *)
(* Heights are integers in units of 0.005 mm (half a fine step), so that   *)
(* a height that is not a whole number of fine steps can be represented.   *)
(***************************************************************************)
EXTENDS Integers, Sequences, FiniteSets, TLC

(***************************************************************************)
(* Program constants (calibrate-probe.py lines 10-17).                     *)
(***************************************************************************)
\* COARSE_STEP = 0.2 mm, in units of 0.005 mm
COARSE_STEP == 40
\* FINE_STEP = 0.01 mm
FINE_STEP == 2
\* SAFE_Z_HEIGHT = 7.0 mm
SAFE_Z_HEIGHT == 1400
DEFAULT_BED_TARGET_TEMP == 65
PROBE_DEPLOY_CMD == "M280 P0 S10"
PROBE_STOW_CMD == "M280 P0 S160"

(***************************************************************************)
(* Bounds of the model.                                                    *)
(***************************************************************************)
\* the highest fine start height (trigger height + COARSE_STEP, in units)
\* that the Z of an M114 report leads to
MaxStartZ == 3
\* temperatures the device reports lie within this distance of the target
TempSpread == 1
\* the number of send_command calls SpecChannel follows
MaxCommands == 2

\* The Z values an M114 report can carry: those that make the fine start
\* height negative, zero, odd and even (a probe that triggers just below Z 0).
\* A coarse probe that captures no position leaves trigger_height 0.0 and
\* the fine start height at COARSE_STEP, twenty fine steps above zero.
ReportedZ == { s - COARSE_STEP : s \in (-1) .. MaxStartZ }

ReportedTemps ==
  (DEFAULT_BED_TARGET_TEMP - TempSpread) .. (DEFAULT_BED_TARGET_TEMP + TempSpread)

VARIABLES
  pc,              \* position of run() in its code
  ser_open,        \* self.ser is open
  z_height,        \* self.z_height
  trigger_height,  \* self.trigger_height
  z_heights,       \* fine_probe's local list of samples
  final_z_height,  \* run's local: the value fine_probe returned
  tx,              \* summary of what has been sent on the serial line
  m851,            \* the Z argument of the M851 command that set the offset
  raisedAt,        \* where an exception was raised ("none": no exception)
  unacked,         \* a command returned without an "ok": "none", the stage
                   \* it belongs to while run() is in that stage or has sent
                   \* nothing since, "passed" once a later stage's command
                   \* has been sent
  coarseMoves,     \* number of "G0 Z-0.2" moves sent, while in coarse_probe
  coarseEnd,       \* how the coarse descent went
  heatReached,     \* an M105 report with current >= target was received
  lastStatus       \* what the last probe_triggered() call returned:
                   \* "triggered", "not", or "none" before the first call

runVars == <<pc, ser_open, z_height, trigger_height, z_heights, final_z_height,
             tx, m851, raisedAt, unacked, coarseMoves, coarseEnd, heatReached,
             lastStatus>>

\* send_command and the serial line (SpecChannel)
VARIABLES
  s_pc,        \* "idle": not in send_command; "loop": at line 39
  calls,       \* the number of send_command calls made so far
  in_buffer,   \* the lines received and not yet read (ser.in_waiting > 0)
  wire,        \* the lines the device has yet to deliver, in order
  responses,   \* send_command's local list
  expired,     \* time.time() - start_time > timeout
  result,      \* what the last send_command call gave its caller
  received     \* the lines that have arrived since the last
               \* reset_input_buffer, in the order of their arrival

chanVars ==
  <<s_pc, calls, in_buffer, wire, responses, expired, result, received>>

vars == <<runVars, chanVars>>

(***************************************************************************)
(* What run() does is a list of operations: a send_command call or a sleep.*)
(***************************************************************************)
Send(c) == [op |-> "send", cmd |-> c, z |-> 0]
Sleep(d) == [op |-> "sleep", cmd |-> d, z |-> 0]
\* a send_command call whose command text holds the number z
SendTo(c, z) == [op |-> "send", cmd |-> c, z |-> z]

\* the commands that are moves of the head (G0 / G1 with a Z or XY target)
SafeMove == "G0 F500 Z{SAFE_Z_HEIGHT}"
CenterMove == "G0 F5000 X{center_x} Y{center_y}"
StartMove == "G0 Z{self.z_height}"
CoarseMove == "G0 Z-{COARSE_STEP}"
FineMove == "G1 Z-{FINE_STEP} F50"
SetOffsetCmd == "M851 Z-{final_z_height}"
HeatCmd == "M140 S{bed_temp_target}"
Moves == {SafeMove, CenterMove, StartMove, CoarseMove, FineMove}

\* the commands whose having been sent is remembered
Tracked ==
  Moves \cup {HeatCmd, "M140 S0", PROBE_DEPLOY_CMD, PROBE_STOW_CMD, "M119",
              "M114", SetOffsetCmd, "M500"}

\* The Z the machine has been commanded to, after the command of operation
\* o was sent with the commanded Z at z and the last positioning-mode
\* command sent mode, for a device that executes every move it is sent: a Z
\* word is a target after G90 (the device's mode at power-on) and a
\* distance after G91.
Commanded(z, mode, o) ==
  LET word == CASE o.cmd = SafeMove -> SAFE_Z_HEIGHT
                [] o.cmd = StartMove -> o.z
                [] o.cmd = CoarseMove -> -COARSE_STEP
                [] o.cmd = FineMove -> -FINE_STEP
                [] OTHER -> 0
  IN  IF o.cmd \in {SafeMove, StartMove, CoarseMove, FineMove}
      THEN IF mode = "G91" THEN z + word ELSE word
      ELSE z

\* The effect of one operation on the summary of the serial traffic:
\*   sent     the commands of Tracked written so far
\*   last     the last command written
\*   prev     the command written before it
\*   lastAct  the last probe actuation command written
\*   settled  time.sleep(PROBE_STOW_DELAY) has run since that actuation
\*   mode     the last positioning-mode command written
\*   z        the Z the moves written so far command the machine to
ApplyOp(t, o) ==
  IF o.op = "send"
  THEN [t EXCEPT
          !.sent = @ \cup ({o.cmd} \cap Tracked),
          !.last = o.cmd,
          !.prev = t.last,
          !.lastAct = IF o.cmd = PROBE_DEPLOY_CMD THEN "deploy"
                      ELSE IF o.cmd = PROBE_STOW_CMD THEN "stow" ELSE @,
          !.settled = IF o.cmd \in {PROBE_DEPLOY_CMD, PROBE_STOW_CMD}
                      THEN FALSE ELSE @,
          !.mode = IF o.cmd \in {"G90", "G91"} THEN o.cmd ELSE @,
          !.z = Commanded(@, t.mode, o)]
  ELSE [t EXCEPT !.settled = IF o.cmd = "PROBE_STOW_DELAY" THEN TRUE ELSE @]

RECURSIVE ApplyOps(_, _)
ApplyOps(t, ops) ==
  IF ops = << >> THEN t ELSE ApplyOps(ApplyOp(t, Head(ops)), Tail(ops))

(***************************************************************************)
(* The stages of the calibration, in order, and the stage each position of *)
(* run() belongs to.                                                       *)
(***************************************************************************)
Stages == <<"Init", "LeveledReset", "Homed", "Heated", "Positioned",
            "CoarseProbed", "FineProbed", "OffsetComputed", "Persisted", "Done">>

StageOf(p) ==
  CASE p = "start" -> "Init"
    [] p = "level_reset" -> "LeveledReset"
    [] p = "home" -> "Homed"
    [] p \in {"heat", "wait_temp"} -> "Heated"
    [] p = "position" -> "Positioned"
    [] p \in {"coarse_begin", "coarse_loop", "coarse_check"} -> "CoarseProbed"
    [] p \in {"return_safe", "fine_begin", "fine_loop", "fine_end"} -> "FineProbed"
    [] p = "fine_return" -> "OffsetComputed"
    [] p \in {"set_offset", "disable_bed", "run_g29", "save"} -> "Persisted"
    [] OTHER -> "Done"

\* unacked after a piece of run() at position pc that wrote commands iff
\* wrote, one of which returned without an "ok" iff unack
NoteUnacked(wrote, unack) ==
  IF unacked \notin {"none", "passed", StageOf(pc)} /\ wrote THEN "passed"
  ELSE IF unacked = "none" /\ unack THEN StageOf(pc)
  ELSE unacked

(***************************************************************************)
(* A straight-line piece of run(): the operations ops, then position next. *)
(* Every send_command in it may raise serial.SerialException, from         *)
(* ser.write (the command is not sent) or from ser.in_waiting /            *)
(* ser.readline (it is sent); the operations after it are then not run and *)
(* control goes to the except and finally clauses.  A send_command that    *)
(* gets no "ok" before its timeout returns like any other (line 46-48).    *)
(***************************************************************************)
HasSend(ops) == \E i \in 1..Len(ops) : ops[i].op = "send"

CompletesWith(ops, next, unack) ==
  /\ tx' = ApplyOps(tx, ops)
  /\ pc' = next
  /\ unacked' = NoteUnacked(HasSend(ops), unack)
  /\ raisedAt' = raisedAt

Completes(ops, next) ==
  \E unack \in BOOLEAN :
    /\ unack => HasSend(ops)
    /\ CompletesWith(ops, next, unack)

\* operation k of ops, a send_command, raises
RaisesAt(ops, k) ==
  \E how \in {"write", "read"}, unack \in BOOLEAN :
    /\ ops[k].op = "send"
    /\ unack => HasSend(SubSeq(ops, 1, k - 1))
    /\ tx' = ApplyOps(tx, SubSeq(ops, 1, IF how = "write" THEN k - 1 ELSE k))
    /\ pc' = "finally"
    /\ unacked' = NoteUnacked(how = "read" \/ HasSend(SubSeq(ops, 1, k - 1)), unack)
    /\ raisedAt' = pc

\* the parsing of the answer to operation k of ops raises (IndexError, ValueError)
ParseRaisesAt(ops, k) ==
  /\ tx' = ApplyOps(tx, SubSeq(ops, 1, k))
  /\ pc' = "finally"
  /\ unacked' = NoteUnacked(TRUE, FALSE)
  /\ raisedAt' = pc

Raises(ops) == \E k \in 1..Len(ops) : RaisesAt(ops, k)

Block(ops, next) == Completes(ops, next) \/ Raises(ops)

\* The numbers run() computes with are fractions: num / den, den > 0.
RECURSIVE Sum(_)
Sum(s) == IF s = << >> THEN 0 ELSE Head(s) + Sum(Tail(s))

\* sum(z_heights) / len(z_heights), line 138
Mean(s) == [num |-> Sum(s), den |-> Len(s)]

\* str(x) of a number: a "-" when it is negative, then its magnitude
Abs(n) == IF n < 0 THEN -n ELSE n
Repr(x) == [minus |-> x.num < 0, mag |-> [num |-> Abs(x.num), den |-> x.den]]

\* f"M851 Z-{final_z_height}", line 176: the text after "Z" is a "-" followed
\* by str(final_z_height)
FormatOffset(x) == [lead |-> "-", body |-> Repr(x)]

\* a local that has not been assigned, and the offset text before any is sent
Unset == [num |-> 0, den |-> 0]
NoOffset == [lead |-> "", body |-> Repr(Unset)]

RunInit ==
  /\ pc = "start"
  /\ ser_open = TRUE
  /\ z_height = SAFE_Z_HEIGHT
  /\ trigger_height = 0
  /\ z_heights = << >>
  /\ final_z_height = Unset
  /\ tx = [sent |-> {}, last |-> "none", prev |-> "none", lastAct |-> "none",
           settled |-> FALSE, mode |-> "none", z |-> 0]
  /\ m851 = NoOffset
  /\ raisedAt = "none"
  /\ unacked = "none"
  /\ coarseMoves = 0
  /\ coarseEnd = "none"
  /\ heatReached = FALSE
  /\ lastStatus = "none"

\* run, lines 143-148: the greeting, get_printer_information (M115, then the
\* M851 query; a malformed report makes its parsing raise IndexError or
\* ValueError, lines 54-59 and 70-74) and the bed centre.
Start ==
  /\ pc = "start"
  /\ LET ops == <<Send("M117"), Send("M115"), Send("M851")>>
     IN  Block(ops, "level_reset") \/ \E k \in 2..3 : ParseRaisesAt(ops, k)
  /\ UNCHANGED <<ser_open, z_height, trigger_height, z_heights, final_z_height,
                 m851, coarseMoves, coarseEnd, heatReached>>
  /\ UNCHANGED lastStatus
  /\ UNCHANGED chanVars

\* run, line 150
LevelReset ==
  /\ pc = "level_reset"
  /\ Block(<<Send("M420 S0 Z0")>>, "home")
  /\ UNCHANGED <<ser_open, z_height, trigger_height, z_heights, final_z_height,
                 m851, coarseMoves, coarseEnd, heatReached>>
  /\ UNCHANGED lastStatus
  /\ UNCHANGED chanVars

\* run, lines 152-154
Home ==
  /\ pc = "home"
  /\ \E skip_homing \in BOOLEAN :
       IF skip_homing
       THEN Block(<< >>, "heat")
       ELSE Block(<<Send("G28"), Sleep("10")>>, "heat")
  /\ UNCHANGED <<ser_open, z_height, trigger_height, z_heights, final_z_height,
                 m851, coarseMoves, coarseEnd, heatReached>>
  /\ UNCHANGED lastStatus
  /\ UNCHANGED chanVars

\* run, lines 156-158
Heat ==
  /\ pc = "heat"
  /\ Block(<<Sleep("10"), Send(HeatCmd), Send("M117")>>, "wait_temp")
  /\ UNCHANGED <<ser_open, z_height, trigger_height, z_heights, final_z_height,
                 m851, coarseMoves, coarseEnd, heatReached>>
  /\ UNCHANGED lastStatus
  /\ UNCHANGED chanVars

(***************************************************************************)
(* The answer to M105 as wait_for_temperature reads it: head is the text   *)
(* before the first ":" of the response and temps are the numbers that     *)
(* open the following ":"-separated fields ("ok T:21 /0 B:65 /65" has head *)
(* "ok T" and temps <<21, 65>>).  A head other than "ok T" is a response   *)
(* that does not start with "ok T:": a bare "ok", a response whose first   *)
(* line is something else, or nothing at all (the timeout).                *)
(***************************************************************************)
bed_temp_target == DEFAULT_BED_TARGET_TEMP

TempResponses ==
  { [head |-> h, temps |-> <<n>>] : h \in {"ok T"}, n \in ReportedTemps }
  \cup { [head |-> h, temps |-> <<n, b>>] :
           h \in {"ok T", "echo"}, n \in ReportedTemps, b \in ReportedTemps }
  \cup { [head |-> h, temps |-> << >>] : h \in {"ok", ""} }

\* response.startswith("ok T:"), line 98
StartsWithOkT(r) == r.head = "ok T"

\* float(response.split(":")[2].split()[0]), line 99: the third ":"-field
TempFieldMissing(r) == Len(r.temps) < 2
\* (a variant that reads the second ":"-field, the nozzle's)
CurrentTempOfSecondField(r) == r.temps[1]
CurrentTemp(r) == r.temps[2]

\* (a variant that leaves the loop on any temperature report)
WaitBreaksOnAnyReport(r, target_temp) == StartsWithOkT(r)
\* the loop of wait_for_temperature is left (lines 98-101)
WaitBreaks(r, target_temp) ==
  StartsWithOkT(r) /\ CurrentTemp(r) >= target_temp

\* the report is one that reports a bed temperature at or above the target
ReportsTargetReached(r) ==
  /\ r.head = "ok T"
  /\ Len(r.temps) = 2
  /\ r.temps[2] >= bed_temp_target

\* wait_for_temperature, lines 95-102: one turn of its loop
WaitForTemperature ==
  /\ pc = "wait_temp"
  /\ \/ RaisesAt(<<Send("M105")>>, 1) /\ UNCHANGED heatReached
     \/ \E r \in TempResponses :
          /\ heatReached' = (heatReached \/ ReportsTargetReached(r))
          /\ IF StartsWithOkT(r) /\ TempFieldMissing(r)
             THEN ParseRaisesAt(<<Send("M105")>>, 1)
             ELSE IF WaitBreaks(r, bed_temp_target)
             THEN CompletesWith(<<Send("M105")>>, "position", FALSE)
             ELSE CompletesWith(<<Send("M105"), Sleep("1")>>, "wait_temp",
                                r.head \notin {"ok T", "ok"})
  /\ UNCHANGED <<ser_open, z_height, trigger_height, z_heights, final_z_height,
                 m851, coarseMoves, coarseEnd>>
  /\ UNCHANGED lastStatus
  /\ UNCHANGED chanVars

\* run, lines 160-167
Position ==
  /\ pc = "position"
  /\ Block(<<Sleep("1"), Send("G90"), Send(SafeMove), Sleep("1"),
             Send(CenterMove), Sleep("3")>>, "coarse_begin")
  /\ UNCHANGED <<ser_open, z_height, trigger_height, z_heights, final_z_height,
                 m851, coarseMoves, coarseEnd, heatReached>>
  /\ UNCHANGED lastStatus
  /\ UNCHANGED chanVars

(***************************************************************************)
(* The answer to M119 as get_probe_status reads it: a list of lines, each  *)
(* line the list of its ":"-separated fields.  send_command stops at the   *)
(* first line that starts with "ok", so such a line can only be the last.  *)
(***************************************************************************)
StatusLines ==
  { <<"z_probe", " TRIGGERED">>, <<"z_probe", " open">>,
    <<"z_min", " TRIGGERED">>, <<"echo", "z_probe", " TRIGGERED">>,
    <<"Reporting endstop status">>, <<"ok">> }

StartsWithOk(line) == line[1] \in {"ok", "ok T"}

StatusResponses ==
  { << >> } \cup { <<l>> : l \in StatusLines }
  \cup { <<l1, l2>> : l1 \in StatusLines \ {<<"ok">>},
                      l2 \in {<<"z_probe", " TRIGGERED">>, <<"ok">>} }

\* "z_probe:" in line, line 80
HasZProbe(line) == \E i \in 1..(Len(line) - 1) : line[i] = "z_probe"

\* .strip().lower(), line 81
StripLower(f) ==
  CASE f = " TRIGGERED" -> "triggered"
    [] f = " open" -> "open"
    [] OTHER -> f

\* get_probe_status, lines 77-84
get_probe_status(response) ==
  IF \E i \in 1..Len(response) : HasZProbe(response[i])
  THEN LET i == CHOOSE j \in 1..Len(response) :
                  /\ HasZProbe(response[j])
                  /\ \A k \in 1..(j - 1) : ~HasZProbe(response[k])
       IN  StripLower(response[i][2])
  ELSE "None"

\* probe_triggered, lines 86-87
probe_triggered(response) == get_probe_status(response) = "triggered"

Acked(response) ==
  response # << >> /\ StartsWithOk(response[Len(response)])

(***************************************************************************)
(* The answer to M114 as coarse_probe reads it: zs are the numbers that    *)
(* follow each "Z:" of the response ("X:0 Y:0 Z:6.00 E:0 Count X:0 Y:0     *)
(* Z:2400" has two; a response without "Z:" has none).                     *)
(***************************************************************************)
PositionResponses ==
  { [zs |-> << >>] } \cup { [zs |-> <<z>>] : z \in ReportedZ }
  \cup { [zs |-> <<z, 0>>] : z \in ReportedZ }

\* float(response.split('Z:')[1].split()[0]), line 115
NoZField(r) == r.zs = << >>
ParseZ(r) == r.zs[1]

\* (a variant that does not deploy the probe)
CoarseBeginOpsWithoutDeploy == <<Send("M117"), Send("G91")>>
\* coarse_probe, lines 105-107: what it does before its descent
CoarseBeginOps == <<Send("M117"), Send(PROBE_DEPLOY_CMD), Send("G91")>>

\* coarse_probe, lines 105-107
CoarseBegin ==
  /\ pc = "coarse_begin"
  /\ Block(CoarseBeginOps, "coarse_loop")
  /\ UNCHANGED <<ser_open, z_height, trigger_height, z_heights, final_z_height,
                 m851, coarseMoves, coarseEnd, heatReached>>
  /\ UNCHANGED lastStatus
  /\ UNCHANGED chanVars

\* (a variant that does not look at the probe status)
DescentContinuesWhateverStatus(response, z) == z > 0
\* (a variant that goes on while the estimate is at zero)
DescentContinuesAtZero(response, z) == ~probe_triggered(response) /\ z >= 0
\* the condition of the descent loops (lines 108 and 131), the status query
\* answered by response
DescentContinues(response, z) == ~probe_triggered(response) /\ z > 0

\* what a probe_triggered() call whose status query got response returns
Returned119(response) == IF probe_triggered(response) THEN "triggered" ELSE "not"

\* what the probe_triggered() calls return whose answer lets a descent loop
\* at height estimate z go on
ContinuingStatus(z) ==
  { Returned119(r) : r \in {q \in StatusResponses : DescentContinues(q, z)} }

\* coarse_probe, lines 108-111: the loop condition, and the loop body if it holds
CoarseLoop ==
  /\ pc = "coarse_loop"
  /\ LET ops == <<Send("M119"), Send(CoarseMove)>>
     IN \/ /\ RaisesAt(ops, 1)
           /\ UNCHANGED <<z_height, coarseMoves, coarseEnd, lastStatus>>
        \/ /\ \E t \in ContinuingStatus(z_height) : lastStatus' = t
           /\ \/ /\ Completes(ops, "coarse_loop")
                 /\ z_height' = z_height - COARSE_STEP
                 /\ coarseMoves' = coarseMoves + 1
                 /\ UNCHANGED coarseEnd
              \/ /\ RaisesAt(ops, 2)
                 /\ coarseMoves' = IF tx'.last = CoarseMove
                                   THEN coarseMoves + 1 ELSE coarseMoves
                 /\ UNCHANGED <<z_height, coarseEnd>>
        \/ \E r \in StatusResponses :
             /\ ~DescentContinues(r, z_height)
             /\ CompletesWith(<<ops[1]>>, "coarse_check", ~Acked(r))
             /\ coarseEnd' = IF probe_triggered(r) THEN "triggered" ELSE "floor"
             /\ lastStatus' = Returned119(r)
             /\ UNCHANGED <<z_height, coarseMoves>>
  /\ UNCHANGED <<ser_open, trigger_height, z_heights, final_z_height, m851,
                 heatReached>>
  /\ UNCHANGED chanVars

\* coarse_probe, lines 112-118: the second status query and what follows it
CoarseCheck ==
  /\ pc = "coarse_check"
  /\ \/ /\ RaisesAt(<<Send("M119")>>, 1)
        /\ UNCHANGED <<trigger_height, coarseEnd, lastStatus>>
     \/ \E r \in StatusResponses :
          /\ lastStatus' = Returned119(r)
          /\ IF probe_triggered(r)
             THEN LET ops == <<Send("M119"), Send("M117"), Send("M114"),
                               Send(PROBE_STOW_CMD), Sleep("PROBE_STOW_DELAY"),
                               Send("M117")>>
                  IN \E p \in PositionResponses :
                       \/ /\ \E k \in 2..3 : RaisesAt(ops, k)
                          /\ UNCHANGED <<trigger_height, coarseEnd>>
                       \/ /\ NoZField(p)
                          /\ ParseRaisesAt(ops, 3)
                          /\ UNCHANGED <<trigger_height, coarseEnd>>
                       \/ /\ ~NoZField(p)
                          /\ trigger_height' = ParseZ(p)
                          /\ coarseEnd' = "captured"
                          /\ \/ Completes(ops, "return_safe")
                             \/ \E k \in 4..6 : RaisesAt(ops, k)
             ELSE /\ coarseEnd' = IF coarseEnd = "floor" THEN "never" ELSE "lost"
                  /\ UNCHANGED trigger_height
                  /\ LET ops == <<Send("M119"), Send("M117")>>
                     IN  Completes(ops, "return_safe") \/ RaisesAt(ops, 2)
  /\ coarseMoves' = 0
  /\ UNCHANGED <<ser_open, z_height, z_heights, final_z_height, m851,
                 heatReached>>
  /\ UNCHANGED chanVars

\* run, lines 171-173
ReturnSafe ==
  /\ pc = "return_safe"
  /\ Block(<<Send("G90"), Send(SafeMove), Sleep("3")>>, "fine_begin")
  /\ UNCHANGED <<ser_open, z_height, trigger_height, z_heights, final_z_height,
                 m851, coarseMoves, coarseEnd, heatReached>>
  /\ UNCHANGED lastStatus
  /\ UNCHANGED chanVars

\* fine_probe's local list after a step that leads to position p: an
\* exception that leaves fine_probe discards its frame and the list with it
Unwound(list, p) == IF p = "finally" THEN << >> ELSE list

\* (a variant that moves to the start height before it deploys the probe)
FineBeginOpsMovingFirst ==
  <<Send("M117"), Send("G90"), Send(SafeMove), Sleep("3"),
    SendTo(StartMove, trigger_height + COARSE_STEP), Send(PROBE_DEPLOY_CMD),
    Send("G91")>>
\* (a variant that moves to the trigger height without the margin)
FineBeginOpsWithoutMargin ==
  <<Send("M117"), Send("G90"), Send(SafeMove), Sleep("3"),
    Send(PROBE_DEPLOY_CMD), SendTo(StartMove, trigger_height), Send("G91")>>
\* fine_probe, lines 123-130: what one run does before its descent
FineBeginOps ==
  <<Send("M117"), Send("G90"), Send(SafeMove), Sleep("3"),
    Send(PROBE_DEPLOY_CMD), SendTo(StartMove, trigger_height + COARSE_STEP),
    Send("G91")>>

\* fine_probe, lines 122-130: the start of one of the three runs
FineBegin ==
  /\ pc = "fine_begin"
  /\ Len(z_heights) < 3
  /\ LET ops == FineBeginOps
     IN \/ /\ Completes(ops, "fine_loop")
           /\ z_height' = trigger_height + COARSE_STEP
        \/ /\ RaisesAt(ops, 1)
           /\ UNCHANGED z_height
        \/ /\ \E k \in 2..Len(ops) : RaisesAt(ops, k)
           /\ z_height' = trigger_height + COARSE_STEP
  /\ z_heights' = Unwound(z_heights, pc')
  /\ UNCHANGED <<ser_open, trigger_height, final_z_height, m851,
                 coarseMoves, coarseEnd, heatReached>>
  /\ UNCHANGED lastStatus
  /\ UNCHANGED chanVars

\* fine_probe, lines 131-133: the loop condition, and the loop body if it holds
FineLoop ==
  /\ pc = "fine_loop"
  /\ LET ops == <<Send("M119"), Send(FineMove)>>
     IN \/ /\ RaisesAt(ops, 1)
           /\ UNCHANGED <<z_height, lastStatus>>
        \/ /\ \E t \in ContinuingStatus(z_height) : lastStatus' = t
           /\ \/ /\ Completes(ops, "fine_loop")
                 /\ z_height' = z_height - FINE_STEP
              \/ /\ RaisesAt(ops, 2)
                 /\ UNCHANGED z_height
        \/ \E r \in StatusResponses :
             /\ ~DescentContinues(r, z_height)
             /\ CompletesWith(<<ops[1]>>, "fine_end", ~Acked(r))
             /\ lastStatus' = Returned119(r)
             /\ UNCHANGED z_height
  /\ z_heights' = Unwound(z_heights, pc')
  /\ UNCHANGED <<ser_open, trigger_height, final_z_height, m851,
                 coarseMoves, coarseEnd, heatReached>>
  /\ UNCHANGED chanVars

\* fine_probe, lines 134-137, and the for statement of line 122
FineEnd ==
  /\ pc = "fine_end"
  /\ Block(<<Send("M117"), Send(PROBE_STOW_CMD), Sleep("PROBE_STOW_DELAY")>>,
           IF Len(z_heights) + 1 < 3 THEN "fine_begin" ELSE "fine_return")
  /\ z_heights' = Unwound(Append(z_heights, z_height), pc')
  /\ UNCHANGED <<ser_open, z_height, trigger_height, final_z_height, m851,
                 coarseMoves, coarseEnd, heatReached>>
  /\ UNCHANGED lastStatus
  /\ UNCHANGED chanVars

\* fine_probe, lines 138-139, and the assignment of line 175
FineReturn ==
  /\ pc = "fine_return"
  /\ final_z_height' = Mean(z_heights)
  /\ z_heights' = << >>
  /\ pc' = "set_offset"
  /\ UNCHANGED <<ser_open, z_height, trigger_height, tx, m851, raisedAt,
                 unacked, coarseMoves, coarseEnd, heatReached>>
  /\ UNCHANGED lastStatus
  /\ UNCHANGED chanVars

\* run, line 176
SetOffset ==
  /\ pc = "set_offset"
  /\ Block(<<Send(SetOffsetCmd)>>, "disable_bed")
  /\ m851' = IF tx'.last = SetOffsetCmd THEN FormatOffset(final_z_height) ELSE m851
  /\ UNCHANGED <<ser_open, z_height, trigger_height, z_heights, final_z_height,
                 coarseMoves, coarseEnd, heatReached>>
  /\ UNCHANGED lastStatus
  /\ UNCHANGED chanVars

\* run, lines 178-180
DisableBed ==
  /\ pc = "disable_bed"
  /\ \E disable_bed \in BOOLEAN :
       IF disable_bed
       THEN Block(<<Send("M140 S0"), Sleep("1")>>, "run_g29")
       ELSE Block(<< >>, "run_g29")
  /\ UNCHANGED <<ser_open, z_height, trigger_height, z_heights, final_z_height,
                 m851, coarseMoves, coarseEnd, heatReached>>
  /\ UNCHANGED lastStatus
  /\ UNCHANGED chanVars

\* run, lines 182-187
RunG29 ==
  /\ pc = "run_g29"
  /\ \E run_g29 \in BOOLEAN :
       IF run_g29
       THEN Block(<<Send("G29 P1"), Send("G29 P3"), Sleep("1"),
                    Send("G29 P3"), Sleep("1")>>, "save")
       ELSE Block(<< >>, "save")
  /\ UNCHANGED <<ser_open, z_height, trigger_height, z_heights, final_z_height,
                 m851, coarseMoves, coarseEnd, heatReached>>
  /\ UNCHANGED lastStatus
  /\ UNCHANGED chanVars

\* run, lines 189-190
Save ==
  /\ pc = "save"
  /\ Block(<<Sleep("1"), Send("M500")>>, "finish")
  /\ UNCHANGED <<ser_open, z_height, trigger_height, z_heights, final_z_height,
                 m851, coarseMoves, coarseEnd, heatReached>>
  /\ UNCHANGED lastStatus
  /\ UNCHANGED chanVars

\* run, lines 192-194
Finish ==
  /\ pc = "finish"
  /\ Block(<<Sleep("3"), Send("M117"), Sleep("3")>>, "finally")
  /\ UNCHANGED <<ser_open, z_height, trigger_height, z_heights, final_z_height,
                 m851, coarseMoves, coarseEnd, heatReached>>
  /\ UNCHANGED lastStatus
  /\ UNCHANGED chanVars

\* (a variant whose finally clause exits without closing the port)
ExitsWithoutClose ==
  /\ pc = "finally"
  /\ pc' = "exit"
  /\ UNCHANGED <<ser_open, z_height, trigger_height, z_heights, final_z_height,
                 tx, m851, raisedAt, unacked, coarseMoves, coarseEnd,
                 heatReached>>
  /\ UNCHANGED lastStatus
  /\ UNCHANGED chanVars
\* run, lines 196-202: the except clauses only print; finally closes the
\* port and exits
Finally ==
  /\ pc = "finally"
  /\ ser_open' = FALSE
  /\ pc' = "exit"
  /\ UNCHANGED <<z_height, trigger_height, z_heights, final_z_height, tx, m851,
                 raisedAt, unacked, coarseMoves, coarseEnd, heatReached>>
  /\ UNCHANGED lastStatus
  /\ UNCHANGED chanVars

\* the positions of run() inside its try statement
RunPositions ==
  {"start", "level_reset", "home", "heat", "wait_temp", "position",
   "coarse_begin", "coarse_loop", "coarse_check", "return_safe",
   "fine_begin", "fine_loop", "fine_end", "fine_return", "set_offset",
   "disable_bed", "run_g29", "save", "finish"}

\* The operator interrupts the program (KeyboardInterrupt) while run() is
\* inside its try statement, in a time.sleep or in the wait of send_command:
\* neither except clause catches it (it is no Exception) and control goes to
\* the finally clause.
Interrupt ==
  /\ pc \in RunPositions
  /\ pc' = "finally"
  /\ raisedAt' = pc
  /\ z_heights' = Unwound(z_heights, pc')
  /\ UNCHANGED <<ser_open, z_height, trigger_height, final_z_height, tx, m851,
                 unacked, coarseMoves, coarseEnd, heatReached>>
  /\ UNCHANGED lastStatus
  /\ UNCHANGED chanVars

RunNext ==
  \/ Start \/ LevelReset \/ Home \/ Heat \/ WaitForTemperature \/ Position
  \/ CoarseBegin \/ CoarseLoop \/ CoarseCheck \/ ReturnSafe
  \/ FineBegin \/ FineLoop \/ FineEnd \/ FineReturn
  \/ SetOffset \/ DisableBed \/ RunG29 \/ Save \/ Finish \/ Finally
  \/ Interrupt

(***************************************************************************)
(* The script calibrate_probe.py: the same calibration written as one      *)
(* with statement.  It uses the variables of the same names; its positions *)
(* are those of ScriptPositions.                                           *)
(***************************************************************************)
\* wait_for_temperature(ser, 50), line 83
ScriptWaitTemp == 50

ScriptPositions ==
  {"script_start", "script_wait_temp", "script_position",
   "script_coarse_loop", "script_coarse_end", "script_fine_begin",
   "script_fine_loop", "script_fine_end", "script_finish", "script_save"}

\* the with statement has opened the port; lines 66-67
ScriptInit ==
  /\ pc = "script_start"
  /\ ser_open = TRUE
  /\ z_height = 0
  /\ trigger_height = 0
  /\ z_heights = << >>
  /\ final_z_height = Unset
  /\ tx = [sent |-> {}, last |-> "none", prev |-> "none", lastAct |-> "none",
           settled |-> FALSE, mode |-> "none", z |-> 0]
  /\ m851 = NoOffset
  /\ raisedAt = "none"
  /\ unacked = "none"
  /\ coarseMoves = 0
  /\ coarseEnd = "none"
  /\ heatReached = FALSE
  /\ lastStatus = "none"

\* a straight-line piece of the script: it completes, or one of its
\* send_command calls raises and control goes to the script's finally clause
ScriptCompletes(ops, next) ==
  /\ tx' = ApplyOps(tx, ops)
  /\ pc' = next
  /\ raisedAt' = raisedAt

ScriptRaisesAt(ops, k) ==
  \E how \in {"write", "read"} :
    /\ ops[k].op = "send"
    /\ tx' = ApplyOps(tx, SubSeq(ops, 1, IF how = "write" THEN k - 1 ELSE k))
    /\ pc' = "script_finally"
    /\ raisedAt' = pc

\* the parsing of the answer to operation k of ops raises
ScriptParseRaisesAt(ops, k) ==
  /\ tx' = ApplyOps(tx, SubSeq(ops, 1, k))
  /\ pc' = "script_finally"
  /\ raisedAt' = pc

ScriptBlock(ops, next) ==
  ScriptCompletes(ops, next) \/ \E k \in 1..Len(ops) : ScriptRaisesAt(ops, k)

\* get_probe_status and probe_triggered of the script, lines 31-46
ScriptProbeStatus(response) ==
  IF \E i \in 1..Len(response) : HasZProbe(response[i])
  THEN LET i == CHOOSE j \in 1..Len(response) :
                  /\ HasZProbe(response[j])
                  /\ \A k \in 1..(j - 1) : ~HasZProbe(response[k])
           status == StripLower(response[i][2])
       IN  IF status = "open" THEN "OPEN"
           ELSE IF status = "triggered" THEN "TRIGGERED" ELSE "None"
  ELSE "None"

ScriptProbeTriggered(response) == ScriptProbeStatus(response) = "TRIGGERED"

\* what the script's probe_triggered calls return whose status query got a
\* response of the set rs
ScriptReturned119(rs) ==
  { IF ScriptProbeTriggered(r) THEN "triggered" ELSE "not" : r \in rs }

\* lines 69-80
ScriptStart ==
  /\ pc = "script_start"
  /\ ScriptBlock(<<Send("M117"), Send("M420 S0 Z0"), Send("G28"), Sleep("10"),
                   Send(HeatCmd), Send("M117")>>, "script_wait_temp")
  /\ UNCHANGED <<ser_open, z_height, trigger_height, z_heights, final_z_height,
                 m851, unacked, coarseMoves, coarseEnd, heatReached>>
  /\ UNCHANGED lastStatus
  /\ UNCHANGED chanVars

\* wait_for_temperature of the script, lines 56-63: one turn of its loop
ScriptWaitForTemperature ==
  /\ pc = "script_wait_temp"
  /\ \/ ScriptRaisesAt(<<Send("M105")>>, 1)
     \/ \E r \in TempResponses :
          IF StartsWithOkT(r) /\ TempFieldMissing(r)
          THEN ScriptParseRaisesAt(<<Send("M105")>>, 1)
          ELSE IF WaitBreaks(r, ScriptWaitTemp)
          THEN ScriptCompletes(<<Send("M105")>>, "script_position")
          ELSE ScriptCompletes(<<Send("M105"), Sleep("1")>>, "script_wait_temp")
  /\ UNCHANGED <<ser_open, z_height, trigger_height, z_heights, final_z_height,
                 m851, unacked, coarseMoves, coarseEnd, heatReached>>
  /\ UNCHANGED lastStatus
  /\ UNCHANGED chanVars

\* lines 86-104
ScriptPosition ==
  /\ pc = "script_position"
  /\ LET ops == <<Send("G90"), Send(SafeMove), Sleep("1"), Send(CenterMove),
                  Sleep("3"), Send(PROBE_DEPLOY_CMD), Send("G91"), Send("M117")>>
     IN \/ /\ ScriptCompletes(ops, "script_coarse_loop")
           /\ z_height' = SAFE_Z_HEIGHT
        \/ /\ \E k \in 1..7 : ScriptRaisesAt(ops, k)
           /\ UNCHANGED z_height
        \/ /\ ScriptRaisesAt(ops, 8)
           /\ z_height' = SAFE_Z_HEIGHT
  /\ UNCHANGED <<ser_open, trigger_height, z_heights, final_z_height,
                 m851, unacked, coarseMoves, coarseEnd, heatReached>>
  /\ UNCHANGED lastStatus
  /\ UNCHANGED chanVars

\* lines 106-120: the loop condition, and one turn of the loop if it holds
ScriptCoarseLoop ==
  /\ pc = "script_coarse_loop"
  /\ IF z_height > 0
     THEN \/ /\ ScriptRaisesAt(<<Send("M119")>>, 1)
             /\ UNCHANGED <<z_height, trigger_height, lastStatus>>
          \/ /\ \E t \in ScriptReturned119({r \in StatusResponses :
                                              ScriptProbeTriggered(r)}) :
                  lastStatus' = t
             /\ LET ops == <<Send("M119"), Send("M117"), Send("M114")>>
                IN \/ /\ \E k \in 2..3 : ScriptRaisesAt(ops, k)
                      /\ UNCHANGED trigger_height
                   \/ \E p \in PositionResponses :
                        IF NoZField(p)
                        THEN /\ ScriptParseRaisesAt(ops, 3)
                             /\ UNCHANGED trigger_height
                        ELSE /\ ScriptCompletes(ops, "script_coarse_end")
                             /\ trigger_height' = ParseZ(p)
             /\ UNCHANGED z_height
          \/ /\ \E t \in ScriptReturned119({r \in StatusResponses :
                                              ~ScriptProbeTriggered(r)}) :
                  lastStatus' = t
             /\ LET ops == <<Send("M119"), Send(CoarseMove)>>
                IN \/ /\ ScriptCompletes(ops, "script_coarse_loop")
                      /\ z_height' = z_height - COARSE_STEP
                   \/ /\ ScriptRaisesAt(ops, 2)
                      /\ UNCHANGED z_height
             /\ UNCHANGED trigger_height
     ELSE /\ ScriptCompletes(<< >>, "script_coarse_end")
          /\ UNCHANGED <<z_height, trigger_height, lastStatus>>
  /\ UNCHANGED <<ser_open, z_heights, final_z_height,
                 m851, unacked, coarseMoves, coarseEnd, heatReached>>
  /\ UNCHANGED chanVars

\* lines 122-146
ScriptCoarseEnd ==
  /\ pc = "script_coarse_end"
  /\ LET ops == <<Send("M117"), Sleep("3"), Send(PROBE_STOW_CMD),
                  Sleep("2.190"), Send("G90"), Send(SafeMove), Sleep("3"),
                  Send(PROBE_DEPLOY_CMD), Sleep("0.650"),
                  SendTo(StartMove, trigger_height + COARSE_STEP),
                  Send("G91"), Send("M117")>>
     IN \/ /\ ScriptCompletes(ops, "script_fine_begin")
           /\ z_height' = trigger_height + COARSE_STEP
        \/ /\ \E k \in 1..7 : ScriptRaisesAt(ops, k)
           /\ UNCHANGED z_height
        \/ /\ \E k \in 8..Len(ops) : ScriptRaisesAt(ops, k)
           /\ z_height' = trigger_height + COARSE_STEP
  /\ UNCHANGED <<ser_open, trigger_height, z_heights, final_z_height,
                 m851, unacked, coarseMoves, coarseEnd, heatReached>>
  /\ UNCHANGED lastStatus
  /\ UNCHANGED chanVars

\* lines 150-164: the start of one of the three fine runs
ScriptFineBegin ==
  /\ pc = "script_fine_begin"
  /\ Len(z_heights) < 3
  /\ z_height' = trigger_height + COARSE_STEP
  /\ ScriptBlock(<<Send(PROBE_DEPLOY_CMD), Sleep("0.650"), Send("G90"),
                   SendTo(StartMove, trigger_height + COARSE_STEP),
                   Send("G91"), Send("M117")>>,
                 "script_fine_loop")
  /\ UNCHANGED <<ser_open, trigger_height, z_heights, final_z_height,
                 m851, unacked, coarseMoves, coarseEnd, heatReached>>
  /\ UNCHANGED lastStatus
  /\ UNCHANGED chanVars

\* lines 166-173: the loop condition, and one turn of the loop if it holds
ScriptFineLoop ==
  /\ pc = "script_fine_loop"
  /\ IF z_height > 0
     THEN \/ /\ ScriptRaisesAt(<<Send("M119")>>, 1)
             /\ UNCHANGED <<z_height, lastStatus>>
          \/ /\ \E t \in ScriptReturned119({r \in StatusResponses :
                                              ScriptProbeTriggered(r)}) :
                  lastStatus' = t
             /\ ScriptCompletes(<<Send("M119")>>, "script_fine_end")
             /\ UNCHANGED z_height
          \/ /\ \E t \in ScriptReturned119({r \in StatusResponses :
                                              ~ScriptProbeTriggered(r)}) :
                  lastStatus' = t
             /\ LET ops == <<Send("M119"), Send(FineMove)>>
                IN \/ /\ ScriptCompletes(ops, "script_fine_loop")
                      /\ z_height' = z_height - FINE_STEP
                   \/ /\ ScriptRaisesAt(ops, 2)
                      /\ UNCHANGED z_height
     ELSE /\ ScriptCompletes(<< >>, "script_fine_end")
          /\ UNCHANGED <<z_height, lastStatus>>
  /\ UNCHANGED <<ser_open, trigger_height, z_heights, final_z_height,
                 m851, unacked, coarseMoves, coarseEnd, heatReached>>
  /\ UNCHANGED chanVars

\* lines 175-182, and the for statement of line 150
ScriptFineEnd ==
  /\ pc = "script_fine_end"
  /\ z_heights' = Append(z_heights, -z_height)
  /\ ScriptBlock(<<Send(PROBE_STOW_CMD), Sleep("2.190"), Send(SafeMove),
                   Sleep("3")>>,
                 IF Len(z_heights) + 1 < 3 THEN "script_fine_begin"
                 ELSE "script_finish")
  /\ UNCHANGED <<ser_open, z_height, trigger_height, final_z_height,
                 m851, unacked, coarseMoves, coarseEnd, heatReached>>
  /\ UNCHANGED lastStatus
  /\ UNCHANGED chanVars

\* f"M851 Z{final_z_height}", line 188: the text after "Z" is
\* str(final_z_height)
ScriptFormatOffset(x) == [lead |-> "", body |-> Repr(x)]

ScriptSetOffsetCmd == "M851 Z{final_z_height}"

\* lines 184-188
ScriptFinish ==
  /\ pc = "script_finish"
  /\ final_z_height' = Mean(z_heights)
  /\ ScriptBlock(<<Send("M117"), Sleep("3"), Send(ScriptSetOffsetCmd)>>,
                 "script_save")
  /\ m851' = IF tx'.last = ScriptSetOffsetCmd
             THEN ScriptFormatOffset(final_z_height') ELSE m851
  /\ UNCHANGED <<ser_open, z_height, trigger_height, z_heights,
                 unacked, coarseMoves, coarseEnd, heatReached>>
  /\ UNCHANGED lastStatus
  /\ UNCHANGED chanVars

\* lines 189-197
ScriptSave ==
  /\ pc = "script_save"
  /\ ScriptBlock(<<Send("M117"), Send("M140 S0"), Sleep("1"), Send("M500"),
                   Sleep("5")>>, "script_finally")
  /\ UNCHANGED <<ser_open, z_height, trigger_height, z_heights, final_z_height,
                 m851, unacked, coarseMoves, coarseEnd, heatReached>>
  /\ UNCHANGED lastStatus
  /\ UNCHANGED chanVars

\* the operator interrupts the script inside its try statement
ScriptInterrupt ==
  /\ pc \in ScriptPositions
  /\ pc' = "script_finally"
  /\ raisedAt' = pc
  /\ UNCHANGED <<ser_open, z_height, trigger_height, z_heights, final_z_height,
                 tx, m851, unacked, coarseMoves, coarseEnd, heatReached>>
  /\ UNCHANGED lastStatus
  /\ UNCHANGED chanVars

\* lines 199-205: the except clauses only print; finally closes the port
\* and exits
ScriptFinally ==
  /\ pc = "script_finally"
  /\ ser_open' = FALSE
  /\ pc' = "script_exit"
  /\ UNCHANGED <<z_height, trigger_height, z_heights, final_z_height, tx, m851,
                 raisedAt, unacked, coarseMoves, coarseEnd, heatReached>>
  /\ UNCHANGED lastStatus
  /\ UNCHANGED chanVars

ScriptNext ==
  \/ ScriptStart \/ ScriptWaitForTemperature \/ ScriptPosition
  \/ ScriptCoarseLoop \/ ScriptCoarseEnd \/ ScriptFineBegin \/ ScriptFineLoop
  \/ ScriptFineEnd \/ ScriptFinish \/ ScriptSave \/ ScriptInterrupt
  \/ ScriptFinally

(***************************************************************************)
(* send-commands.py: run() reads commands from the operator and sends each *)
(* until the operator enters "exit".                                       *)
(***************************************************************************)
\* the commands the operator enters
Entered == {"M119", "G28", "exit", "EXIT"}

\* __init__ has opened the port, lines 11-12
ReplInit ==
  /\ pc = "repl_input"
  /\ ser_open = TRUE
  /\ z_height = 0
  /\ trigger_height = 0
  /\ z_heights = << >>
  /\ final_z_height = Unset
  /\ tx = [sent |-> {}, last |-> "none", prev |-> "none", lastAct |-> "none",
           settled |-> FALSE, mode |-> "none", z |-> 0]
  /\ m851 = NoOffset
  /\ raisedAt = "none"
  /\ unacked = "none"
  /\ coarseMoves = 0
  /\ coarseEnd = "none"
  /\ heatReached = FALSE
  /\ lastStatus = "none"

\* command.lower(), line 40
Lower(c) == IF c = "EXIT" THEN "exit" ELSE c

\* lines 39-42: one turn of the loop.  input() raises EOFError when the
\* input ends and KeyboardInterrupt when the operator interrupts it;
\* send_command raises serial.SerialException.
ReplTurn ==
  /\ pc = "repl_input"
  /\ \/ /\ pc' = "repl_finally"
        /\ raisedAt' = pc
        /\ UNCHANGED tx
     \/ \E command \in Entered :
          IF Lower(command) = "exit"
          THEN /\ pc' = "repl_finally"
               /\ UNCHANGED <<tx, raisedAt>>
          ELSE \/ /\ tx' = ApplyOp(tx, Send(command))
                  /\ UNCHANGED <<pc, raisedAt>>
               \/ \E how \in {"write", "read"} :
                    /\ tx' = IF how = "write" THEN tx
                             ELSE ApplyOp(tx, Send(command))
                    /\ pc' = "repl_finally"
                    /\ raisedAt' = pc
  /\ UNCHANGED <<ser_open, z_height, trigger_height, z_heights, final_z_height,
                 m851, unacked, coarseMoves, coarseEnd, heatReached>>
  /\ UNCHANGED lastStatus
  /\ UNCHANGED chanVars

\* lines 43-49
ReplFinally ==
  /\ pc = "repl_finally"
  /\ ser_open' = FALSE
  /\ pc' = "repl_exit"
  /\ UNCHANGED <<z_height, trigger_height, z_heights, final_z_height, tx, m851,
                 raisedAt, unacked, coarseMoves, coarseEnd, heatReached>>
  /\ UNCHANGED lastStatus
  /\ UNCHANGED chanVars

ReplNext == ReplTurn \/ ReplFinally

(***************************************************************************)
(* send_command (lines 31-48) and the serial line.  A line is its text and *)
(* the number of the call whose command the device emitted it in reply to  *)
(* (the bytes carry no such number: the protocol has no request ids).      *)
(***************************************************************************)
Line(t, c) == [text |-> t, of |-> c]

\* what the device emits for one command: nothing, or some lines ending
\* with the acknowledgment
Replies(c) ==
  { << >>, <<Line("ok", c)>>, <<Line("echo:busy", c), Line("ok", c)>>,
    <<Line("ok T:21 /0", c)>> }

\* (a variant that takes no line for the acknowledgment)
NeverAck(line) == FALSE
\* response.startswith("ok"), line 44
IsAck(line) == line.text \in {"ok", "ok T:21 /0"}

\* '\n'.join(responses), line 48, as the list of the lines of the string it
\* gives: the empty list gives the empty string, which is one empty line
Join(lines) == IF lines = << >> THEN <<Line("", 0)>> ELSE lines

ChanInit ==
  /\ s_pc = "idle"
  /\ calls = 0
  /\ in_buffer = << >>
  /\ wire = << >>
  /\ responses = << >>
  /\ expired = FALSE
  /\ result = [call |-> 0, outcome |-> "none", lines |-> << >>]
  /\ received = << >>

\* the caller calls send_command: lines 33-37.  reset_input_buffer drops
\* what has been received, the command is written and the device will
\* answer it after what it still has to deliver.
Call ==
  /\ s_pc = "idle"
  /\ calls < MaxCommands
  /\ calls' = calls + 1
  /\ in_buffer' = << >>
  /\ \E reply \in Replies(calls + 1) : wire' = wire \o reply
  /\ responses' = << >>
  /\ expired' = FALSE
  /\ s_pc' = "loop"
  /\ received' = << >>
  /\ UNCHANGED result
  /\ UNCHANGED runVars

\* ser.write raises serial.SerialException (line 34): the call ends with it
CallRaises ==
  /\ s_pc = "idle"
  /\ calls < MaxCommands
  /\ calls' = calls + 1
  /\ in_buffer' = << >>
  /\ result' = [call |-> calls + 1, outcome |-> "SerialException",
                lines |-> << >>]
  /\ received' = << >>
  /\ UNCHANGED <<s_pc, wire, responses, expired>>
  /\ UNCHANGED runVars

\* send_command's return, line 48
Returned(lines) ==
  [call |-> calls, outcome |-> "returned", lines |-> Join(lines)]

\* one turn of the loop of lines 39-47
Iterate ==
  /\ s_pc = "loop"
  /\ LET got == in_buffer # << >>
         read == IF got THEN Append(responses, Head(in_buffer)) ELSE responses
         leave == (got /\ IsAck(Head(in_buffer))) \/ expired
     IN  /\ in_buffer' = IF got THEN Tail(in_buffer) ELSE in_buffer
         /\ IF leave
            THEN /\ s_pc' = "idle"
                 /\ result' = Returned(read)
                 /\ responses' = << >>
            ELSE /\ responses' = read
                 /\ UNCHANGED <<s_pc, result>>
  /\ UNCHANGED <<calls, wire, expired, received>>
  /\ UNCHANGED runVars

\* ser.in_waiting or ser.readline raises serial.SerialException (lines
\* 40-41): the call ends with it and returns nothing
ReadRaises ==
  /\ s_pc = "loop"
  /\ s_pc' = "idle"
  /\ result' = [call |-> calls, outcome |-> "SerialException", lines |-> << >>]
  /\ responses' = << >>
  /\ UNCHANGED <<calls, in_buffer, wire, expired, received>>
  /\ UNCHANGED runVars

\* more than timeout seconds have passed since start_time
Tick ==
  /\ s_pc = "loop"
  /\ ~expired
  /\ expired' = TRUE
  /\ UNCHANGED <<s_pc, calls, in_buffer, wire, responses, result, received>>
  /\ UNCHANGED runVars

\* a line of the device arrives
Deliver ==
  /\ wire # << >>
  /\ in_buffer' = Append(in_buffer, Head(wire))
  /\ wire' = Tail(wire)
  /\ received' = Append(received, Head(wire))
  /\ UNCHANGED <<s_pc, calls, responses, expired, result>>
  /\ UNCHANGED runVars

ChanNext == Call \/ CallRaises \/ Iterate \/ ReadRaises \/ Tick \/ Deliver

Init == RunInit /\ ChanInit

Next == RunNext

Spec == Init /\ [][Next]_vars

NextChannel == ChanNext

SpecChannel == Init /\ [][NextChannel]_vars

\* the three programs: one of them is started
InitPrograms == (RunInit \/ ScriptInit \/ ReplInit) /\ ChanInit

NextPrograms == RunNext \/ ScriptNext \/ ReplNext

SpecPrograms == InitPrograms /\ [][NextPrograms]_vars

\* send_command runs: its loop takes its next turn (ser.readline returns
\* within the port's read timeout), and time passes
SpecChannelLive == SpecChannel /\ WF_vars(Iterate) /\ WF_vars(Tick)

(***************************************************************************)
(* The claims.                                                             *)
(***************************************************************************)

\* C1: if coarse_probe ends because the height estimate reached zero and no
\* status query reported triggered, the run aborts: no fine descent step, no
\* M851 offset command and no M500 is sent afterwards.
C1_AbortsWhenNeverTriggered ==
  coarseEnd = "never" => tx.sent \cap {FineMove, SetOffsetCmd, "M500"} = {}

\* C2: when a serial exception is raised inside the coarse or the fine
\* descent loop, where the probe is deployed, the stow command is sent before
\* the exception propagates: the run does not end with deploy as the last
\* actuation command.
C2_StowedWhenLoopRaises ==
  (pc = "exit" /\ raisedAt \in {"coarse_loop", "fine_loop"})
    => tx.lastAct = "stow"

\* C3: when no status query of the coarse descent reports triggered, the
\* loop ends exactly when the estimate reaches zero, after exactly 35 moves
\* from 7.0 in steps of 0.2; the estimate always equals the start height
\* less the moves sent, and no move is sent at or below zero.
C3_CoarseStopsAtZero ==
  /\ coarseMoves <= 35
  /\ pc = "coarse_loop" =>
       /\ z_height = SAFE_Z_HEIGHT - COARSE_STEP * coarseMoves
       /\ z_height >= 0
  /\ (pc = "coarse_check" /\ coarseEnd = "floor") =>
       (coarseMoves = 35 /\ z_height = 0)

C3_Witness == pc = "coarse_check" /\ coarseEnd = "floor" /\ coarseMoves = 35

\* C4: once a probing phase has deployed the probe, the stow command and its
\* settle delay come before the next move to the safe height, also when
\* coarse_probe ended without a trigger.
C4_StowedBeforeSafeMove ==
  tx.last = SafeMove =>
    (tx.lastAct # "deploy" /\ (tx.lastAct = "stow" => tx.settled))

\* C5: the response send_command returns for a command holds no line the
\* device emitted in reply to an earlier command; a late "ok" of a command
\* that timed out is not taken as the acknowledgment of a later one.
C5_NoLineOfAnEarlierCommand ==
  \A i \in 1..Len(result.lines) : result.lines[i].of \in {0, result.call}

\* C6: the run moves forward through the stages and sends a stage's commands
\* only if the previous stage succeeded: once a command has failed, a
\* missing acknowledgment included, no command of a later stage is sent.
C6_NoLaterStageAfterFailure == unacked # "passed"

\* the text after "Z" of the offset command is a well-formed number, the
\* negation of x ("-" and then an unsigned magnitude equal to x)
IsNegationOf(m, x) ==
  /\ m.lead = "-"
  /\ ~m.body.minus
  /\ x.num >= 0
  /\ m.body.mag.num * x.den = x.num * m.body.mag.den

\* C7: fine_probe returns the arithmetic mean of the three samples it
\* recorded, and run sends that mean, negated, as the Z argument of M851
\* before it sends M500.
C7_MeanReturned ==
  (pc = "fine_return" /\ pc' = "set_offset") =>
    /\ Len(z_heights) = 3
    /\ final_z_height'.den > 0
    /\ final_z_height'.num * 3
         = (z_heights[1] + z_heights[2] + z_heights[3]) * final_z_height'.den

C7_MeanSentNegated ==
  /\ [][C7_MeanReturned]_vars
  /\ [](SetOffsetCmd \in tx.sent => IsNegationOf(m851, final_z_height))
  /\ []("M500" \in tx.sent => SetOffsetCmd \in tx.sent)

\* C8: no move and no probe deploy command is sent before the heater
\* set-point command has been sent and wait_for_temperature has received a
\* report whose current bed temperature is at or above the target.
C8_HeatedBeforeMoving ==
  tx.sent \cap (Moves \cup {PROBE_DEPLOY_CMD}) # {}
    => (HeatCmd \in tx.sent /\ heatReached)

C8_Witness ==
  /\ heatReached
  /\ {SafeMove, CenterMove, PROBE_DEPLOY_CMD} \subseteq tx.sent

\* C9 as claimed: without a report of a temperature at or above the target
\* wait_for_temperature polls forever: the run neither goes on nor ends.
C9_PollsForever ==
  ((pc = "wait_temp" \/ raisedAt = "wait_temp") /\ ~heatReached)
    => pc = "wait_temp"

\* C9, amended: the heat wait has no timeout.  Until a report that starts
\* with "ok T:" and gives a current temperature at or above the target has
\* been received, the run stays at or before the heat wait and has sent no
\* move, offset or save command; it leaves the wait only through an
\* exception, which ends the run.
C9_LeavesHeatWaitOnlyByException ==
  ~heatReached =>
    /\ pc \in {"start", "level_reset", "home", "heat", "wait_temp",
               "finally", "exit"}
    /\ pc \in {"finally", "exit"} =>
         raisedAt \in {"start", "level_reset", "home", "heat", "wait_temp"}
    /\ tx.sent \cap (Moves \cup {PROBE_DEPLOY_CMD, SetOffsetCmd, "M500"}) = {}

C9_Witness ==
  pc = "wait_temp" /\ tx.last = "M105" /\ ~heatReached /\ unacked = "Heated"

\* the last line of a response is an acknowledgment
Acknowledged(lines) == lines # << >> /\ IsAck(lines[Len(lines)])

\* C10: when no line that begins with "ok" arrives before the timeout,
\* send_command fails with a ProtocolTimeout, an outcome distinct from that
\* of an acknowledged call, and still hands over the lines received so far.
C10_TimeoutIsAFailure ==
  (result.call > 0 /\ result.outcome # "SerialException"
     /\ ~Acknowledged(result.lines))
    => result.outcome = "ProtocolTimeout"

\* the text of the line begins with the acknowledgment token "ok"
BeginsWithOk(line) == line.text \in {"ok", "ok T:21 /0"}

NoOkIn(lines) == \A i \in 1..Len(lines) : ~BeginsWithOk(lines[i])

\* the lines of the response are the first n lines received after the
\* reset, in the order of their arrival, up to and including the first line
\* that begins with "ok", or, at the timeout, all lines read until then
ReturnedInOrder ==
  \E n \in 0..Len(received) :
    /\ result.lines = Join(SubSeq(received, 1, n))
    /\ NoOkIn(SubSeq(received, 1, n - 1))
    /\ \/ n > 0 /\ BeginsWithOk(received[n])
       \/ expired

C11_InOrder ==
  /\ s_pc = "loop" =>
       (responses \o in_buffer = received /\ NoOkIn(responses))
  /\ (s_pc = "idle" /\ result.outcome = "returned") => ReturnedInOrder

\* C11: send_command returns the lines it read after the write in the order
\* of their arrival, none dropped or reordered; it stops reading at the first
\* line that begins with "ok", which is the last line returned; and a call
\* always ends, also when the device sends nothing, once the timeout has
\* elapsed.
C11_LinesInOrderAndReturns ==
  /\ []C11_InOrder
  /\ (s_pc = "loop") ~> (s_pc = "idle")

C11_Witness ==
  /\ s_pc = "idle"
  /\ result.outcome = "returned"
  /\ Len(result.lines) = 2
  /\ result.lines[1].text = "echo:busy"
  /\ BeginsWithOk(result.lines[2])

\* C12: when the run ends by an exception raised after the heater set-point
\* command was sent, a heater-off command (M140 S0) has been sent by the
\* time the run ends.
C12_HeaterOffWhenAborted ==
  (pc = "exit" /\ raisedAt # "none" /\ HeatCmd \in tx.sent)
    => "M140 S0" \in tx.sent

\* the positions in which a program has ended
Terminal == {"exit", "script_exit", "repl_exit"}

\* C13: the transport is closed on every exit path of run and of the two
\* other programs: normal completion, an exception raised by a command or
\* by a parse step, and an interrupt during a wait.  No program has ended
\* with the transport open, and it is open until the finally clause.
C13_ClosedOnEveryExit ==
  /\ pc \in Terminal => ~ser_open
  /\ pc \notin Terminal => ser_open

C13_Witness ==
  /\ pc = "exit"
  /\ ~ser_open
  /\ raisedAt = "fine_loop"
  /\ tx.last = "M119"

\* the program is at one of the positions ps, or it left the try statement
\* from one of them
InOrLeftFrom(ps) ==
  \/ pc \in ps
  \/ /\ pc \in {"finally", "exit", "script_finally", "script_exit"}
     /\ raisedAt \in ps

InFineRun == InOrLeftFrom({"fine_begin", "fine_loop", "fine_end"})

InScriptFineRun ==
  InOrLeftFrom({"script_fine_begin", "script_fine_loop", "script_fine_end"})

\* C14 as claimed: in a fine run the commands follow one another in the
\* order safe-height move, G90, move to trigger height plus margin, deploy,
\* G91; the probe is deployed only after the move to trigger height plus
\* margin.
C14_DeployedAfterStartMove ==
  InFineRun =>
    /\ tx.last = "G90" => tx.prev = SafeMove
    /\ tx.last = StartMove => tx.prev = "G90"
    /\ tx.last = PROBE_DEPLOY_CMD => tx.prev = StartMove
    /\ tx.last = "G91" => tx.prev = PROBE_DEPLOY_CMD

\* C14, amended: in each fine run of calibrate-probe.py the commands follow
\* one another in the order G90, safe-height move, deploy, move to trigger
\* height plus margin, G91, then status queries with a descent step after
\* each one that lets the loop go on, then the message and stow; in the
\* script the order is deploy, G90, move to trigger height plus margin, G91,
\* the message, the queries and steps, stow, safe-height move.  In both the
\* probe is deployed before the move to trigger height plus margin.
C14_FineRunOrder ==
  /\ InFineRun =>
       /\ tx.last = "G90" => tx.prev = "M117"
       /\ tx.last = SafeMove => tx.prev = "G90"
       /\ tx.last = PROBE_DEPLOY_CMD => tx.prev = SafeMove
       /\ tx.last = StartMove =>
            (tx.prev = PROBE_DEPLOY_CMD /\ tx.lastAct = "deploy")
       /\ tx.last = "G91" => tx.prev = StartMove
       /\ tx.last = "M119" => tx.prev \in {"G91", FineMove}
       /\ tx.last = FineMove => tx.prev = "M119"
       /\ tx.last = "M117" => tx.prev \in {SafeMove, "M119", PROBE_STOW_CMD}
       /\ tx.last = PROBE_STOW_CMD => tx.prev = "M117"
       /\ tx.last \in {"G90", SafeMove, PROBE_DEPLOY_CMD, StartMove, "G91",
                        "M119", FineMove, "M117", PROBE_STOW_CMD}
  /\ InScriptFineRun =>
       /\ tx.last = PROBE_DEPLOY_CMD => tx.prev \in {"M117", SafeMove}
       /\ tx.last = "G90" => tx.prev = PROBE_DEPLOY_CMD
       /\ tx.last = StartMove => (tx.prev = "G90" /\ tx.lastAct = "deploy")
       /\ tx.last = "G91" => tx.prev = StartMove
       /\ tx.last = "M117" => tx.prev = "G91"
       /\ tx.last = "M119" => tx.prev \in {"M117", FineMove}
       /\ tx.last = FineMove => tx.prev = "M119"
       /\ tx.last = PROBE_STOW_CMD => tx.prev \in {"M117", "M119", FineMove}
       /\ tx.last = SafeMove => tx.prev = PROBE_STOW_CMD
       /\ tx.last \in {"G90", SafeMove, PROBE_DEPLOY_CMD, StartMove, "G91",
                        "M119", FineMove, "M117", PROBE_STOW_CMD}

\* the third fine run has sent its stow command after a descent
C14_Witness ==
  /\ pc = "fine_return"
  /\ Len(z_heights) = 3
  /\ tx.last = PROBE_STOW_CMD
  /\ {StartMove, FineMove} \subseteq tx.sent

\* C15: every sample fine_probe records is non-negative, whatever trigger
\* height coarse_probe left behind and whatever the probe answers.
C15_SamplesNonNegative ==
  (pc \in RunPositions \cup {"finally", "exit"}) =>
    \A i \in 1..Len(z_heights) : z_heights[i] >= 0

\* the program that runs is calibrate-probe.py, or the script
InClassRun == pc \in RunPositions \cup {"finally", "exit"}
InScriptRun == pc \in ScriptPositions \cup {"script_finally", "script_exit"}

\* C16: in the coarse phase and in every fine run the deploy command is sent
\* before the first status query (M119) of that phase or run: at every
\* status query the last actuation command sent is deploy, and the first
\* query of a phase or run follows the G91 (in the script, the message after
\* the G91) that follows that phase's deploy or the move sent after it.
C16_DeployedBeforeFirstQuery ==
  /\ InClassRun =>
       /\ tx.last = "M119" =>
            /\ tx.lastAct = "deploy"
            /\ tx.prev \in {"G91", CoarseMove, FineMove, "M119"}
       /\ tx.last = "G91" => tx.prev \in {PROBE_DEPLOY_CMD, StartMove}
       /\ tx.last = StartMove => tx.prev = PROBE_DEPLOY_CMD
  /\ InScriptRun =>
       /\ tx.last = "M119" =>
            /\ tx.lastAct = "deploy"
            /\ tx.prev \in {"M117", CoarseMove, FineMove}
       /\ (pc \in {"script_coarse_loop", "script_fine_loop"}
             /\ tx.last = "M117") => tx.prev = "G91"
       /\ tx.last = "G91" => tx.prev \in {PROBE_DEPLOY_CMD, StartMove}
       /\ tx.last = StartMove => tx.prev \in {PROBE_DEPLOY_CMD, "G90"}
       /\ tx.last = "G90" => tx.prev \in {"M105", PROBE_STOW_CMD, PROBE_DEPLOY_CMD}

\* the first status query of the coarse phase has been answered
C16_Witness ==
  /\ pc = "coarse_check"
  /\ tx.last = "M119"
  /\ tx.prev = "G91"
  /\ tx.lastAct = "deploy"

\* C17: when the coarse descent loop ended because a status query reported
\* triggered and coarse_probe has returned, the position query (M114) has
\* been sent, trigger_height holds the Z it reported and the stow command
\* has been sent, whatever the second status query answered.
C17_CapturedWhenLoopTriggered ==
  (pc = "return_safe" /\ coarseEnd \in {"captured", "lost"}) =>
    /\ coarseEnd = "captured"
    /\ "M114" \in tx.sent
    /\ trigger_height \in ReportedZ
    /\ tx.lastAct = "stow"

\* the status query yields Triggered: the first line of the response that
\* holds the token "z_probe:" gives "triggered" as its value
YieldsTriggered(response) ==
  \E i \in 1..Len(response) :
    /\ HasZProbe(response[i])
    /\ \A k \in 1..(i - 1) : ~HasZProbe(response[k])
    /\ response[i][2] = " TRIGGERED"

C18_TriggeredIffStatus ==
  /\ \A r \in StatusResponses : probe_triggered(r) <=> YieldsTriggered(r)
  /\ probe_triggered(<< <<"z_probe", " TRIGGERED">>, <<"ok">> >>)
  /\ ~probe_triggered(<< <<"z_probe", " open">>, <<"ok">> >>)
  /\ ~probe_triggered(<< <<"z_min", " TRIGGERED">>, <<"ok">> >>)
  /\ ~probe_triggered(<< <<"ok">> >>)
  /\ ~probe_triggered(<< >>)

\* a downward step is the last command sent only directly after a status
\* query whose answer made probe_triggered() return false, in a descent loop
C18_StepOnlyAfterNotTriggered ==
  tx.last \in {CoarseMove, FineMove} =>
    /\ tx.prev = "M119"
    /\ lastStatus = "not"
    /\ InOrLeftFrom({"coarse_loop", "fine_loop"})

\* a turn of a descent loop whose status query reports triggered sends no
\* step and leaves the loop
C18_TriggeredEndsDescent ==
  (pc \in {"coarse_loop", "fine_loop"} /\ tx' # tx
     /\ lastStatus' = "triggered") =>
    /\ tx'.last = "M119"
    /\ pc' \notin {"coarse_loop", "fine_loop"}

\* C18: probe_triggered is true exactly when the status query yields
\* Triggered (a missing or unparsable status is not triggered); each
\* downward step of a coarse or fine descent is sent only directly after a
\* status query that was not Triggered; and once a status query in a
\* descent loop reports Triggered, no further step is sent in that phase or
\* run.
C18_DescentFollowsStatus ==
  /\ [](C18_TriggeredIffStatus /\ C18_StepOnlyAfterNotTriggered)
  /\ [][C18_TriggeredEndsDescent]_vars

\* a fine descent has ended, after a step, on a triggered answer
C18_Witness ==
  /\ pc = "fine_end"
  /\ lastStatus = "triggered"
  /\ tx.last = "M119"
  /\ tx.prev = FineMove

\* C19: in calibrate-probe.py and in the script, a move with an absolute Z
\* target (to the safe height, or to trigger height plus margin) is sent
\* while the last positioning-mode command sent is G90, and a downward
\* descent step while it is G91.
C19_ModeMatchesMove ==
  (InClassRun \/ InScriptRun) =>
    /\ tx.last \in {SafeMove, StartMove} => tx.mode = "G90"
    /\ tx.last \in {CoarseMove, FineMove} => tx.mode = "G91"

\* the last sample of a list
LastOf(list) == list[Len(list)]

\* at a status query of a descent loop, and at the loop's tests, the
\* estimate is the Z the machine has been commanded to
C20_EstimateIsCommandedZ ==
  /\ pc \in {"coarse_loop", "coarse_check", "fine_loop", "fine_end"} =>
       z_height = tx.z
  /\ (InOrLeftFrom({"coarse_loop", "fine_loop"}) /\ tx.last = "M119") =>
       z_height = tx.z

\* the sample a fine run records is the commanded Z at the end of its loop
C20_SampleIsCommandedZ ==
  (pc = "fine_end" /\ Len(z_heights') = Len(z_heights) + 1) =>
    (LastOf(z_heights') = tx.z /\ tx'.z = tx.z)

\* C20: with a device that executes every move it is sent, at every status
\* query inside the coarse and fine descent loops of calibrate-probe.py the
\* estimate z_height equals the Z the machine has been commanded to (the
\* start height of the phase less the steps sent), and the sample recorded
\* equals the commanded Z at the moment the loop ends.
C20_EstimateTracksCommands ==
  /\ []C20_EstimateIsCommandedZ
  /\ [][C20_SampleIsCommandedZ]_vars

\* a fine run that started at an odd height has recorded its sample after
\* one step
C20_Witness ==
  /\ pc \in {"fine_begin", "fine_return"}
  /\ Len(z_heights) > 0
  /\ LastOf(z_heights) = tx.z
  /\ tx.z = trigger_height + COARSE_STEP - FINE_STEP
  /\ FineMove \in tx.sent

====
